---- MODULE Spec2Model ----
(* Model of get_emails.py: the polling loop of run_continuously, with       *)
(* LeadTracker.process_emails, CalendarManager.create_event,                *)
(* LeadTracker.generate_opportunities and ExcelReportGenerator.update_report *)
(* as its steps.  The mail provider, the classifier, the calendar, the      *)
(* folder store and the disk are the environment: their answers are chosen  *)
(* nondeterministically among the outcomes the code distinguishes.          *)
EXTENDS Integers, Sequences, FiniteSets, TLC

(* ------------------------------ bounds ---------------------------------- *)
\* number of messages that ever arrive in the mailbox
MaxMsgs == 2
\* number of iterations of the while-loop of run_continuously
MaxCycles == 2
\* number of failures of the environment in one behaviour: a request that
\* fails, a file that cannot be written, a kill of the process
MaxFaults == 1

(* --------------------------- program constants -------------------------- *)
\* generate_opportunities: "Trigger summary after 3 interactions"
SUMMARY_THRESHOLD == 3
\* run_continuously: "Weekly Summary Logic (runs on Fridays)", weekday() of a Friday
FRIDAY == 4

(* ------------------------------ data ------------------------------------ *)
\* sender addresses the mail provider may deliver
Senders == {"a@x.com", "A@x.com", "b@y.com"}

\* the addresses the i-th message of the mailbox may come from
SendersOf(i) ==
  CASE i % 3 = 1 -> {"a@x.com"}
    [] i % 3 = 2 -> {"a@x.com", "A@x.com"}
    [] OTHER -> {"b@y.com"}

\* str.lower() on the strings of the model
Lower(s) ==
  CASE s = "A@x.com" -> "a@x.com"
    [] s = "Demo" -> "demo"
    [] OTHER -> s

\* hashlib.md5(sender_email.lower().encode()).hexdigest()[:8]
\* (the digest is a tag on its argument: no collision among the modelled addresses)
OppId(email) == <<"md5_8", Lower(email)>>

OppIds == {OppId(e) : e \in Senders}

\* the classifier's answers: parse_email returns None (json = FALSE) or the decoded dict
NoParsed ==
  [json |-> FALSE, is_lead |-> FALSE, has_meeting |-> FALSE, lead_status |-> "",
   subject |-> "", date |-> "", start_time |-> ""]

NotLead ==
  [json |-> TRUE, is_lead |-> FALSE, has_meeting |-> FALSE, lead_status |-> "",
   subject |-> "", date |-> "", start_time |-> ""]

LeadNoMeeting ==
  [json |-> TRUE, is_lead |-> TRUE, has_meeting |-> FALSE, lead_status |-> "Proposal Sent",
   subject |-> "", date |-> "", start_time |-> ""]

LeadMeeting(subj) ==
  [json |-> TRUE, is_lead |-> TRUE, has_meeting |-> TRUE, lead_status |-> "Meeting Scheduled",
   subject |-> subj, date |-> "2025-03-01", start_time |-> "10:00"]

LeadMeetingNoDate ==
  [json |-> TRUE, is_lead |-> TRUE, has_meeting |-> TRUE, lead_status |-> "Meeting Scheduled",
   subject |-> "Demo", date |-> "", start_time |-> "10:00"]

\* an answer that names a meeting and is no lead
NotLeadMeeting ==
  [json |-> TRUE, is_lead |-> FALSE, has_meeting |-> TRUE, lead_status |-> "",
   subject |-> "Demo", date |-> "2025-03-01", start_time |-> "10:00"]

ParsedResults ==
  {NoParsed, NotLead, NotLeadMeeting, LeadNoMeeting, LeadMeeting("Demo"), LeadMeeting("demo"),
   LeadMeetingNoDate}

\* CalendarManager._generate_event_fingerprint: md5 of the lowercased joined fields
Fingerprint(parsed, email) ==
  <<Lower(parsed.subject), Lower(parsed.date), Lower(parsed.start_time), Lower(email)>>

Fingerprints == {Fingerprint(p, e) : p \in {LeadMeeting("Demo"), LeadMeeting("demo")}, e \in Senders}

\* answers of POST /me/events: 201 (the only status create_event takes as
\* success), another status, or a transport exception
EventResponses == {"201", "500", "raise"}

\* what open(filename, 'wb') + pickle.dump can do to the file
SaveOutcomes == {"ok", "open_fail", "write_fail"}

\* a pickle file that is missing or cannot be unpickled; a readable one has
\* state "valid" and holds a set
NoFile == [state |-> "unreadable", data |-> {}]

\* FileManager.load_pickle: the set of a readable file, set() otherwise
load_pickle(file) == IF file.state = "valid" THEN file.data ELSE {}

\* FileManager.save_pickle: 'wb' truncates the file before the dump; every error is swallowed
save_pickle(data, file, outcome) ==
  CASE outcome = "ok" -> [state |-> "valid", data |-> data]
    [] outcome = "open_fail" -> file
    [] OTHER -> NoFile

(* --------------------------- CalendarManager ---------------------------- *)
\* result of one create_event invocation: the returned value, whether the
\* external POST was issued, whether it raised, and the dedup set in memory
\* and on disk afterwards
EventResult(ret, posted, raised, events, file) ==
  [ret |-> ret, posted |-> posted, raised |-> raised, events |-> events, file |-> file]

\* create_event without the look-up of the fingerprint in processed_events
create_event_no_lookup(parsed, sender_email, events, file, resp, saveOutcome) ==
  LET fingerprint == Fingerprint(parsed, sender_email) IN
  IF ~parsed.json \/ ~parsed.has_meeting \/ parsed.date = "" \/ parsed.start_time = ""
  THEN EventResult("None", FALSE, FALSE, events, file)
  ELSE IF resp = "raise"
  THEN EventResult("None", TRUE, TRUE, events, file)
  ELSE IF resp = "201"
  THEN EventResult("event_id", TRUE, FALSE, events \cup {fingerprint},
                   save_pickle(events \cup {fingerprint}, file, saveOutcome))
  ELSE EventResult("None", TRUE, FALSE, events, file)

\* create_event recording the fingerprint before it looks at the status
create_event_record_first(parsed, sender_email, events, file, resp, saveOutcome) ==
  LET fingerprint == Fingerprint(parsed, sender_email) IN
  IF ~parsed.json \/ ~parsed.has_meeting \/ parsed.date = "" \/ parsed.start_time = ""
  THEN EventResult("None", FALSE, FALSE, events, file)
  ELSE IF fingerprint \in events
  THEN EventResult("duplicate_skipped", FALSE, FALSE, events, file)
  ELSE IF resp = "raise"
  THEN EventResult("None", TRUE, TRUE, events, file)
  ELSE EventResult(IF resp = "201" THEN "event_id" ELSE "None", TRUE, FALSE,
                   events \cup {fingerprint},
                   save_pickle(events \cup {fingerprint}, file, saveOutcome))

\* create_event calling raise_for_status on the answer: a status other than
\* 201 leaves the method as an exception
create_event_status_raises(parsed, sender_email, events, file, resp, saveOutcome) ==
  LET fingerprint == Fingerprint(parsed, sender_email) IN
  IF ~parsed.json \/ ~parsed.has_meeting \/ parsed.date = "" \/ parsed.start_time = ""
  THEN EventResult("None", FALSE, FALSE, events, file)
  ELSE IF fingerprint \in events
  THEN EventResult("duplicate_skipped", FALSE, FALSE, events, file)
  ELSE IF resp = "201"
  THEN EventResult("event_id", TRUE, FALSE, events \cup {fingerprint},
                   save_pickle(events \cup {fingerprint}, file, saveOutcome))
  ELSE EventResult("None", TRUE, TRUE, events, file)

\* create_event without the check of line 182 for the date and the start time
create_event_no_guard(parsed, sender_email, events, file, resp, saveOutcome) ==
  LET fingerprint == Fingerprint(parsed, sender_email) IN
  IF ~parsed.json \/ ~parsed.has_meeting
  THEN EventResult("None", FALSE, FALSE, events, file)
  ELSE IF fingerprint \in events
  THEN EventResult("duplicate_skipped", FALSE, FALSE, events, file)
  ELSE IF resp = "raise"
  THEN EventResult("None", TRUE, TRUE, events, file)
  ELSE IF resp = "201"
  THEN EventResult("event_id", TRUE, FALSE, events \cup {fingerprint},
                   save_pickle(events \cup {fingerprint}, file, saveOutcome))
  ELSE EventResult("None", TRUE, FALSE, events, file)

\* CalendarManager.create_event
create_event(parsed, sender_email, events, file, resp, saveOutcome) ==
  LET fingerprint == Fingerprint(parsed, sender_email) IN
  IF ~parsed.json \/ ~parsed.has_meeting \/ parsed.date = "" \/ parsed.start_time = ""
  THEN EventResult("None", FALSE, FALSE, events, file)
  ELSE IF fingerprint \in events
  THEN EventResult("duplicate_skipped", FALSE, FALSE, events, file)
  ELSE IF resp = "raise"
  THEN EventResult("None", TRUE, TRUE, events, file)
  ELSE IF resp = "201"
  THEN EventResult("event_id", TRUE, FALSE, events \cup {fingerprint},
                   save_pickle(events \cup {fingerprint}, file, saveOutcome))
  ELSE EventResult("None", TRUE, FALSE, events, file)

(* ------------------------------ state ----------------------------------- *)
VARIABLES
  mailbox,              \* the provider's mailbox, oldest message first
  pc,                   \* position of the process in run_continuously
  cycle,                \* iterations of the while-loop started so far
  messages,             \* process_emails: the part of the fetched list still to visit
  all_newly_processed,  \* process_emails: its result, then all_new_emails of the loop
  opportunities,        \* the dict returned by generate_opportunities, in insertion order
  processed_emails,     \* LeadTracker.processed_emails
  emails_pkl,           \* processed_emails.pkl
  processed_events,     \* CalendarManager.processed_events
  events_pkl,           \* processed_events.pkl
  report,               \* Opportunities.xlsx: the data rows of its three sheets
  lastEvent,            \* history: the create_event invocation of the step just taken
  eventPosts,           \* history: POSTs to /me/events per fingerprint
  eventCreated,         \* history: 201 answers per fingerprint since the process started
  folderCalls,          \* history: create_folder_for_lead calls per opportunity id
  faults,               \* failures of the environment so far
  today,                \* datetime.now().weekday(): 0 is Monday, 6 is Sunday
  last_summary_day,     \* the day tracker of run_continuously
  digestsToday          \* history: weekly summaries logged since the last midnight

vars ==
  <<mailbox, pc, cycle, messages, all_newly_processed, opportunities, processed_emails,
    emails_pkl, processed_events, events_pkl, report, lastEvent, eventPosts, eventCreated,
    folderCalls, faults,
    today, last_summary_day, digestsToday>>

memory == <<messages, all_newly_processed, opportunities, processed_emails, processed_events>>
disk == <<emails_pkl, events_pkl, report>>
history == <<lastEvent, eventPosts, eventCreated, folderCalls>>
clock == <<today, digestsToday>>
digest == <<today, last_summary_day, digestsToday>>

NoEvent ==
  [invoked |-> FALSE, fp |-> <<>>, known |-> FALSE, posted |-> FALSE, resp |-> "",
   ret |-> "None", save |-> ""]

EmptyReport == [opps |-> <<>>, log |-> <<>>, emails |-> <<>>]

\* LeadTracker.__init__ and the head of run_continuously on a first start:
\* both sets are loaded from disk, no file exists yet
Started ==
  /\ pc = "idle"
  /\ cycle = 0
  /\ messages = <<>>
  /\ all_newly_processed = <<>>
  /\ opportunities = <<>>
  /\ emails_pkl = NoFile
  /\ events_pkl = NoFile
  /\ processed_emails = load_pickle(NoFile)
  /\ processed_events = load_pickle(NoFile)
  /\ report = EmptyReport
  /\ lastEvent = NoEvent
  /\ eventPosts = [f \in Fingerprints |-> 0]
  /\ eventCreated = [f \in Fingerprints |-> 0]
  /\ folderCalls = [o \in OppIds |-> 0]
  /\ faults = 0
  /\ today = FRIDAY - 1
  /\ last_summary_day = -1
  /\ digestsToday = 0

\* the program is started on an empty mailbox
Init == mailbox = <<>> /\ Started

(* ---------------------------- environment ------------------------------- *)
\* the message the provider stores as its n-th; identifiers are unique and the
\* received timestamps increase; of the body the number of its lines is kept
Message(n, sender, lines) ==
  [id |-> n, sender_email |-> sender, received |-> n, body_lines |-> lines]

\* a message with a body of one line arrives in the mailbox while the process
\* sleeps (and a fetch is still to come)
Arrive(sender) ==
  /\ pc = "idle"
  /\ cycle < MaxCycles
  /\ Len(mailbox) < MaxMsgs
  /\ sender \in SendersOf(Len(mailbox) + 1)
  /\ mailbox' = Append(mailbox, Message(Len(mailbox) + 1, sender, 1))
  /\ UNCHANGED <<pc, cycle, memory, disk, history, faults, digest>>

\* a message arrives whose body has more lines than the summary threshold
ArriveLong(sender) ==
  /\ pc = "idle"
  /\ cycle < MaxCycles
  /\ Len(mailbox) < MaxMsgs
  /\ sender \in SendersOf(Len(mailbox) + 1)
  /\ mailbox' = Append(mailbox, Message(Len(mailbox) + 1, sender, SUMMARY_THRESHOLD + 1))
  /\ UNCHANGED <<pc, cycle, memory, disk, history, faults, digest>>

(* ----------------------- LeadTracker.process_emails --------------------- *)
RECURSIVE Reverse(_)
Reverse(s) == IF s = <<>> THEN <<>> ELSE Append(Reverse(Tail(s)), Head(s))

\* the EmailData built for a fetched message, with the fields a later step
\* reads: calendar_event_id is only ever assigned, and of parsed_data the
\* subject is read by create_event alone, before the record is stored
EmailData(msg, is_lead, parsed) ==
  [id |-> msg.id, sender_email |-> msg.sender_email, received |-> msg.received,
   body_lines |-> msg.body_lines,
   is_lead |-> is_lead, parsed_data |-> [parsed EXCEPT !.subject = ""]]

\* lines 480-489, the head of an iteration of the while-loop: on a Friday the
\* weekly summary is logged unless the tracker holds today's weekday; on
\* another day the tracker is reset
WeeklySummary ==
  /\ today' = today
  /\ IF today = FRIDAY /\ last_summary_day # today
     THEN /\ last_summary_day' = today
          /\ digestsToday' = digestsToday + 1
     ELSE /\ last_summary_day' = (IF today # FRIDAY THEN -1 ELSE last_summary_day)
          /\ digestsToday' = digestsToday

\* requests.get raising with no except clause around it: the exception
\* leaves process_emails and run_continuously
FetchFailEscapes ==
  /\ pc = "idle"
  /\ cycle < MaxCycles
  /\ cycle' = cycle + 1
  /\ faults < MaxFaults
  /\ faults' = faults + 1
  /\ pc' = "exited"
  /\ messages' = <<>>
  /\ all_newly_processed' = <<>>
  /\ opportunities' = <<>>
  /\ processed_emails' = {}
  /\ processed_events' = {}
  /\ lastEvent' = NoEvent
  /\ eventCreated' = [f \in Fingerprints |-> 0]
  /\ today' = today
  /\ digestsToday' = IF today = FRIDAY /\ last_summary_day # today
                      THEN digestsToday + 1 ELSE digestsToday
  /\ last_summary_day' = -1
  /\ UNCHANGED <<mailbox, disk, eventPosts, folderCalls>>

\* requests.get raises (lines 394-395): the except clause of line 429 logs and
\* the function goes on at line 434 with an empty all_newly_processed
FetchFail ==
  /\ pc = "idle"
  /\ cycle < MaxCycles
  /\ cycle' = cycle + 1
  /\ faults < MaxFaults
  /\ faults' = faults + 1
  /\ WeeklySummary
  /\ messages' = <<>>
  /\ all_newly_processed' = <<>>
  /\ pc' = "afterloop"
  /\ lastEvent' = NoEvent
  /\ UNCHANGED <<mailbox, opportunities, processed_emails, processed_events, disk,
                 eventPosts, eventCreated, folderCalls>>

\* the fetch answers with the mailbox, newest first ($orderby=receivedDateTime desc)
Fetch ==
  /\ pc = "idle"
  /\ cycle < MaxCycles
  /\ cycle' = cycle + 1
  /\ WeeklySummary
  /\ messages' = Reverse(mailbox)
  /\ all_newly_processed' = <<>>
  /\ pc' = IF mailbox = <<>> THEN "afterloop" ELSE "loop"
  /\ lastEvent' = NoEvent
  /\ UNCHANGED <<mailbox, opportunities, processed_emails, processed_events, disk,
                 eventPosts, eventCreated, folderCalls, faults>>

\* where the for-loop goes once the list `rest` is left to visit
AfterVisit(rest) == IF rest = <<>> THEN "afterloop" ELSE "loop"

\* loop body, lines 400-402: an identifier of processed_emails is skipped
SkipSeen ==
  /\ pc = "loop"
  /\ Head(messages).id \in processed_emails
  /\ messages' = Tail(messages)
  /\ pc' = AfterVisit(Tail(messages))
  /\ lastEvent' = NoEvent
  /\ UNCHANGED <<mailbox, cycle, digest, all_newly_processed, opportunities, processed_emails,
                 processed_events, disk, eventPosts, eventCreated, folderCalls, faults>>

\* loop body, lines 404-427: classify, schedule the meeting of a lead, record
\* the message; an exception of requests.post leaves the loop (line 429)
ProcessMessage(parsed, resp, saveOutcome) ==
  /\ pc = "loop"
  /\ Head(messages).id \notin processed_emails
  /\ LET msg == Head(messages)
         lead == parsed.json /\ parsed.is_lead
         schedules == lead /\ parsed.has_meeting
         ev == create_event(parsed, msg.sender_email, processed_events, events_pkl,
                            resp, saveOutcome)
         fp == Fingerprint(parsed, msg.sender_email)
         failed == (IF schedules /\ ev.posted /\ resp # "201" THEN 1 ELSE 0)
                   + (IF schedules /\ ev.posted /\ resp = "201" /\ saveOutcome # "ok"
                      THEN 1 ELSE 0)
     IN
     /\ faults + failed <= MaxFaults
     /\ faults' = faults + failed
     /\ lastEvent' =
          IF schedules
          THEN [invoked |-> TRUE, fp |-> fp, known |-> fp \in processed_events,
                posted |-> ev.posted, resp |-> IF ev.posted THEN resp ELSE "",
                ret |-> ev.ret,
                save |-> IF ev.posted /\ resp = "201" THEN saveOutcome ELSE ""]
          ELSE NoEvent
     /\ eventPosts' =
          IF schedules /\ ev.posted
          THEN [eventPosts EXCEPT ![fp] = @ + 1] ELSE eventPosts
     /\ eventCreated' =
          IF schedules /\ ev.posted /\ resp = "201"
          THEN [eventCreated EXCEPT ![fp] = @ + 1] ELSE eventCreated
     /\ processed_events' = IF schedules THEN ev.events ELSE processed_events
     /\ events_pkl' = IF schedules THEN ev.file ELSE events_pkl
     /\ IF schedules /\ ev.raised
        THEN /\ messages' = <<>>
             /\ pc' = "afterloop"
             /\ UNCHANGED <<all_newly_processed, processed_emails>>
        ELSE /\ all_newly_processed' = Append(all_newly_processed,
                  EmailData(msg, lead, IF lead THEN parsed ELSE NoParsed))
             /\ processed_emails' = processed_emails \cup {msg.id}
             /\ messages' = Tail(messages)
             /\ pc' = AfterVisit(Tail(messages))
  /\ UNCHANGED <<mailbox, cycle, digest, opportunities, emails_pkl, report, folderCalls>>

\* lines 434-437: the set is saved when the batch is not empty, then the batch is returned
SaveProcessedEmails(saveOutcome) ==
  /\ pc = "afterloop"
  /\ emails_pkl' = IF all_newly_processed # <<>>
                   THEN save_pickle(processed_emails, emails_pkl, saveOutcome)
                   ELSE emails_pkl
  /\ LET failed == IF all_newly_processed # <<>> /\ saveOutcome # "ok" THEN 1 ELSE 0 IN
     /\ faults + failed <= MaxFaults
     /\ faults' = faults + failed
  /\ pc' = "returned"
  /\ lastEvent' = NoEvent
  /\ UNCHANGED <<mailbox, cycle, digest, memory, events_pkl, report, eventPosts, eventCreated,
                 folderCalls>>

(* ------------------ LeadTracker.generate_opportunities ------------------ *)
\* index of the entry of the dict `opps` under key opp_id, 0 when absent
KeyIndex(opps, opp_id) ==
  IF \E i \in 1..Len(opps) : opps[i].id = opp_id
  THEN CHOOSE i \in 1..Len(opps) : opps[i].id = opp_id
  ELSE 0

\* line 446: opportunities.get(opp_id, {}).get('last_contacted', '').
\* For an absent key the default {} gives '' (below every timestamp); for a
\* present key the value is an OpportunityData, a dataclass without a get
\* method, and the call raises AttributeError.
last_contacted_of(opps, opp_id) ==
  IF KeyIndex(opps, opp_id) = 0
  THEN [raised |-> FALSE, value |-> 0]
  ELSE [raised |-> TRUE, value |-> 0]

\* the folder link None of a failed provisioning, '' of an absent entry
NoLink == <<"None">>

\* line 450, second arm: opportunities.get(opp_id, {}).get('folder_link', '')
folder_link_of(opps, opp_id) ==
  IF KeyIndex(opps, opp_id) = 0
  THEN [raised |-> FALSE, value |-> NoLink]
  ELSE [raised |-> TRUE, value |-> NoLink]

\* SharePointManager.create_folder_for_lead: the web URL of the folder made by
\* this call (conflictBehavior "rename": the n-th call for an id makes a new
\* folder), None when the request fails
create_folder_for_lead(opp_id, ok, n) ==
  IF ok THEN <<"webUrl", opp_id, n>> ELSE NoLink

\* the empty string passed as opportunity id
EmptyId == <<>>

\* ExcelReportGenerator.get_interaction_history: the rows of the Interaction
\* Log of this id, every row when the id is empty
get_interaction_history(rep, opp_id) ==
  SelectSeq(rep.log, LAMBDA row : opp_id = EmptyId \/ row.id = opp_id)

\* the lines of the rows of h joined with '\n': every row gives the text
\* "On <timestamp>, a meeting was logged: <body>", as many lines as its body has
RECURSIVE JoinedLines(_)
JoinedLines(h) == IF h = <<>> THEN 0 ELSE Head(h).lines + JoinedLines(Tail(h))

\* len(history.split('\n')): '' splits into one piece
HistoryLines(h) == IF h = <<>> THEN 1 ELSE JoinedLines(h)

\* GeminiParser.summarize_interactions
summarize_interactions(ok) == IF ok THEN "summary" ELSE "Summary could not be generated."

\* the OpportunityData of line 458
OpportunityData(email, opp_id, notes, folder_link) ==
  [id |-> opp_id, email |-> email.sender_email,
   lead_status |-> IF email.parsed_data.json THEN email.parsed_data.lead_status ELSE "New Lead",
   notes |-> notes, last_contacted |-> email.received, folder_link |-> folder_link]

\* the dict after storing `opp` under its id: a new key goes last, a present key keeps its place
DictPut(opps, opp) ==
  IF KeyIndex(opps, opp.id) = 0
  THEN Append(opps, opp)
  ELSE [opps EXCEPT ![KeyIndex(opps, opp.id)] = opp]

\* the loop of generate_opportunities over `emails`; acc holds the dict, the
\* ids create_folder_for_lead was called for, whether an exception left the
\* function, and whether the summarizer was called
RECURSIVE generate_opportunities(_, _, _, _, _, _)
generate_opportunities(emails, acc, rep, calls, folderOk, sumOk) ==
  IF emails = <<>> \/ acc.raised THEN acc
  ELSE
    LET email == Head(emails)
        opp_id == OppId(email.sender_email)
        absent == KeyIndex(acc.opps, opp_id) = 0
        last == last_contacted_of(acc.opps, opp_id)
    IN
    IF ~absent /\ last.raised
    THEN [acc EXCEPT !.raised = TRUE]
    ELSE IF absent \/ email.received > last.value
    THEN
      LET is_new == absent
          reused == folder_link_of(acc.opps, opp_id)
          called == Len(SelectSeq(acc.calls, LAMBDA c : c = opp_id))
          folder_link ==
            IF is_new
            THEN create_folder_for_lead(opp_id, folderOk[opp_id], calls[opp_id] + called + 1)
            ELSE reused.value
          h == get_interaction_history(rep, opp_id)
          notes == IF HistoryLines(h) > SUMMARY_THRESHOLD
                   THEN summarize_interactions(sumOk) ELSE ""
      IN
      IF ~is_new /\ reused.raised
      THEN [acc EXCEPT !.raised = TRUE]
      ELSE generate_opportunities(Tail(emails),
             [opps |-> DictPut(acc.opps, OpportunityData(email, opp_id, notes, folder_link)),
              calls |-> IF is_new THEN Append(acc.calls, opp_id) ELSE acc.calls,
              raised |-> FALSE,
              summarized |-> acc.summarized \/ HistoryLines(h) > SUMMARY_THRESHOLD],
             rep, calls, folderOk, sumOk)
    ELSE generate_opportunities(Tail(emails), acc, rep, calls, folderOk, sumOk)

(* -------------------------- ExcelReportGenerator ------------------------ *)
\* existing_opps of line 313: the row holding an id, the last one when several do; 0 when none
ExistingRow(ws, opp_id) ==
  IF \E i \in 1..Len(ws) : ws[i].id = opp_id
  THEN CHOOSE i \in 1..Len(ws) :
         ws[i].id = opp_id /\ \A j \in 1..Len(ws) : ws[j].id = opp_id => j <= i
  ELSE 0

\* the loop body without the look-up in existing_opps: every opportunity is appended
UpsertRowAppendOnly(ws, ws0, opp) ==
  Append(ws, [id |-> opp.id, email |-> opp.email, lead_status |-> opp.lead_status,
              last_contacted |-> opp.last_contacted, folder_link |-> opp.folder_link,
              notes |-> opp.notes])

\* the loop body without its else branch: an opportunity without a row is not appended
UpsertRowUpdateOnly(ws, ws0, opp) ==
  LET row_num == ExistingRow(ws0, opp.id) IN
  IF row_num # 0
  THEN [ws EXCEPT ![row_num] =
          [@ EXCEPT !.lead_status = opp.lead_status,
                    !.last_contacted = opp.last_contacted,
                    !.notes = IF opp.notes # "" THEN opp.notes ELSE @]]
  ELSE ws

\* the loop body writing the folder link of the opportunity into a row it found
UpsertRowRelink(ws, ws0, opp) ==
  LET row_num == ExistingRow(ws0, opp.id) IN
  IF row_num # 0
  THEN [ws EXCEPT ![row_num] =
          [@ EXCEPT !.lead_status = opp.lead_status,
                    !.last_contacted = opp.last_contacted,
                    !.folder_link = opp.folder_link,
                    !.notes = IF opp.notes # "" THEN opp.notes ELSE @]]
  ELSE Append(ws, [id |-> opp.id, email |-> opp.email, lead_status |-> opp.lead_status,
                   last_contacted |-> opp.last_contacted, folder_link |-> opp.folder_link,
                   notes |-> opp.notes])

\* one iteration of the loop of _update_opportunities_sheet; ws0 is the sheet
\* existing_opps was read from
UpsertRow(ws, ws0, opp) ==
  LET row_num == ExistingRow(ws0, opp.id) IN
  IF row_num # 0
  THEN [ws EXCEPT ![row_num] =
          [@ EXCEPT !.lead_status = opp.lead_status,
                    !.last_contacted = opp.last_contacted,
                    !.notes = IF opp.notes # "" THEN opp.notes ELSE @]]
  ELSE Append(ws, [id |-> opp.id, email |-> opp.email, lead_status |-> opp.lead_status,
                   last_contacted |-> opp.last_contacted, folder_link |-> opp.folder_link,
                   notes |-> opp.notes])

\* ExcelReportGenerator._update_opportunities_sheet
RECURSIVE UpsertFrom(_, _, _)
UpsertFrom(ws, ws0, opps) ==
  IF opps = <<>> THEN ws ELSE UpsertFrom(UpsertRow(ws, ws0, Head(opps)), ws0, Tail(opps))

update_opportunities_sheet(ws, opps) == UpsertFrom(ws, ws, opps)

\* id_gen of line 331, without the lowercasing
id_gen_case_sensitive(email) == <<"md5_8", email>>

\* id_gen of line 331: hashlib.md5(email.lower().encode()).hexdigest()[:8]
id_gen(email) == <<"md5_8", Lower(email)>>

\* ExcelReportGenerator._update_interaction_log_sheet; of the Meeting Summary
\* (body_preview[:1000]) the number of its lines is kept
RECURSIVE update_interaction_log_sheet(_, _)
update_interaction_log_sheet(ws, new_leads) ==
  IF new_leads = <<>> THEN ws
  ELSE LET email == Head(new_leads) IN
       update_interaction_log_sheet(
         IF email.parsed_data.json /\ email.parsed_data.has_meeting
         THEN Append(ws, [id |-> id_gen(email.sender_email), date |-> email.parsed_data.date,
                          lines |-> email.body_lines, timestamp |-> email.received])
         ELSE ws,
         Tail(new_leads))

\* ExcelReportGenerator._update_all_emails_log; msg is not a column: it records
\* which message the row was written for
RECURSIVE update_all_emails_log(_, _)
update_all_emails_log(ws, all_new_emails) ==
  IF all_new_emails = <<>> THEN ws
  ELSE LET email == Head(all_new_emails) IN
       update_all_emails_log(
         Append(ws, [timestamp |-> email.received, from |-> email.sender_email,
                     is_lead |-> IF email.is_lead THEN "Yes" ELSE "No", msg |-> email.id]),
         Tail(all_new_emails))

\* ExcelReportGenerator.update_report: the workbook is loaded, changed in
\* memory and saved; when the load or the save raises, the file keeps its content
update_report(rep, all_new_emails, new_leads, opps, saved) ==
  IF all_new_emails = <<>> \/ ~saved THEN rep
  ELSE [emails |-> update_all_emails_log(rep.emails, all_new_emails),
        opps |-> IF new_leads # <<>>
                 THEN update_opportunities_sheet(rep.opps, opps) ELSE rep.opps,
        log |-> IF new_leads # <<>>
                THEN update_interaction_log_sheet(rep.log, new_leads) ELSE rep.log]

(* --------------------------- run_continuously --------------------------- *)
\* line 495
new_leads_of(all_new_emails) == SelectSeq(all_new_emails, LAMBDA email : email.is_lead)

\* the locals of a cycle are dropped when the loop goes to sleep
Sleep ==
  /\ pc' = "idle"
  /\ messages' = <<>>
  /\ all_newly_processed' = <<>>
  /\ opportunities' = <<>>

\* the process is gone: what it held in memory is gone with it
ProcessEnds ==
  /\ pc' = "exited"
  /\ messages' = <<>>
  /\ all_newly_processed' = <<>>
  /\ opportunities' = <<>>
  /\ processed_emails' = {}
  /\ processed_events' = {}
  /\ lastEvent' = NoEvent
  /\ eventCreated' = [f \in Fingerprints |-> 0]
  /\ last_summary_day' = -1

\* lines 494, 501-505: nothing new was processed
NoNewEmails ==
  /\ pc = "returned"
  /\ all_newly_processed = <<>>
  /\ Sleep
  /\ UNCHANGED <<mailbox, cycle, digest, processed_emails, processed_events, disk, history,
                 faults>>

\* lines 494-498 with an empty new_leads: update_report is not called
NoNewLeads ==
  /\ pc = "returned"
  /\ all_newly_processed # <<>>
  /\ new_leads_of(all_newly_processed) = <<>>
  /\ Sleep
  /\ UNCHANGED <<mailbox, cycle, digest, processed_emails, processed_events, disk, history,
                 faults>>

\* line 499: the opportunities of the new leads; an exception raised inside
\* is caught nowhere in run_continuously and ends the process (lines 508-513)
GenerateOpportunities(folderOk, sumOk) ==
  /\ pc = "returned"
  /\ new_leads_of(all_newly_processed) # <<>>
  /\ LET res == generate_opportunities(new_leads_of(all_newly_processed),
                  [opps |-> <<>>, calls |-> <<>>, raised |-> FALSE, summarized |-> FALSE],
                  report, folderCalls, folderOk, sumOk)
         failed == Cardinality({o \in OppIds : ~folderOk[o] /\ \E i \in 1..Len(res.calls) : res.calls[i] = o})
                   + (IF res.summarized /\ ~sumOk THEN 1 ELSE 0)
     IN
     /\ faults + failed <= MaxFaults
     /\ faults' = faults + failed
     /\ folderCalls' =
          [o \in OppIds |-> folderCalls[o] + Len(SelectSeq(res.calls, LAMBDA c : c = o))]
     /\ IF res.raised
        THEN /\ ProcessEnds
             /\ UNCHANGED <<eventPosts>>
        ELSE /\ opportunities' = res.opps
             /\ pc' = "generated"
             /\ UNCHANGED <<messages, all_newly_processed, processed_emails, processed_events,
                            last_summary_day,
                            lastEvent, eventPosts, eventCreated>>
  /\ UNCHANGED <<mailbox, cycle, disk, clock>>

\* line 500, then the sleep
UpdateReport(saved) ==
  /\ pc = "generated"
  /\ report' = update_report(report, all_newly_processed, new_leads_of(all_newly_processed),
                             opportunities, saved)
  /\ Sleep
  /\ faults + (IF saved THEN 0 ELSE 1) <= MaxFaults
  /\ faults' = faults + (IF saved THEN 0 ELSE 1)
  /\ UNCHANGED <<mailbox, cycle, digest, processed_emails, processed_events, emails_pkl, events_pkl,
                 history>>

\* the process is stopped from outside (KeyboardInterrupt, kill), wherever it is
Kill ==
  /\ pc # "exited"
  /\ faults < MaxFaults
  /\ faults' = faults + 1
  /\ ProcessEnds
  /\ UNCHANGED <<mailbox, cycle, disk, clock, eventPosts, folderCalls>>

\* the program is started again: both sets are loaded from their files
Restart ==
  /\ pc = "exited"
  /\ pc' = "idle"
  /\ processed_emails' = load_pickle(emails_pkl)
  /\ processed_events' = load_pickle(events_pkl)
  /\ last_summary_day' = -1
  /\ UNCHANGED <<mailbox, cycle, clock, messages, all_newly_processed, opportunities, disk, history,
                 faults>>

Next ==
  \/ \E sender \in Senders : Arrive(sender)
  \/ FetchFail
  \/ Fetch
  \/ SkipSeen
  \/ \E parsed \in ParsedResults, resp \in EventResponses, saveOutcome \in SaveOutcomes :
       ProcessMessage(parsed, resp, saveOutcome)
  \/ \E saveOutcome \in SaveOutcomes : SaveProcessedEmails(saveOutcome)
  \/ NoNewEmails
  \/ NoNewLeads
  \/ \E folderOk \in [OppIds -> BOOLEAN], sumOk \in BOOLEAN : GenerateOpportunities(folderOk, sumOk)
  \/ \E saved \in BOOLEAN : UpdateReport(saved)
  \/ Kill
  \/ Restart

Spec == Init /\ [][Next]_vars

(* ---------------------- the scenario of three messages ------------------ *)
\* the mailbox of the scenario, oldest first: a lead of a@x.com, a later
\* message of a@x.com, then a message of b@y.com
ScenarioMailbox ==
  <<Message(1, "a@x.com", 1), Message(2, "a@x.com", 1), Message(3, "b@y.com", 1)>>

\* the program is started on the mailbox of the scenario
ScenarioInit == mailbox = ScenarioMailbox /\ Started

\* the steps of the program, no further message arriving
ScenarioNext ==
  \/ FetchFail
  \/ Fetch
  \/ SkipSeen
  \/ \E parsed \in ParsedResults, resp \in EventResponses, saveOutcome \in SaveOutcomes :
       ProcessMessage(parsed, resp, saveOutcome)
  \/ \E saveOutcome \in SaveOutcomes : SaveProcessedEmails(saveOutcome)
  \/ NoNewEmails
  \/ NoNewLeads
  \/ \E folderOk \in [OppIds -> BOOLEAN], sumOk \in BOOLEAN : GenerateOpportunities(folderOk, sumOk)
  \/ \E saved \in BOOLEAN : UpdateReport(saved)
  \/ Kill
  \/ Restart

ScenarioSpec == ScenarioInit /\ [][ScenarioNext]_vars

(* ----------------------- bodies of several lines ------------------------ *)
\* the steps of the program, with messages of both kinds of body arriving
SummaryNext ==
  \/ \E sender \in Senders : Arrive(sender)
  \/ \E sender \in Senders : ArriveLong(sender)
  \/ FetchFail
  \/ Fetch
  \/ SkipSeen
  \/ \E parsed \in ParsedResults, resp \in EventResponses, saveOutcome \in SaveOutcomes :
       ProcessMessage(parsed, resp, saveOutcome)
  \/ \E saveOutcome \in SaveOutcomes : SaveProcessedEmails(saveOutcome)
  \/ NoNewEmails
  \/ NoNewLeads
  \/ \E folderOk \in [OppIds -> BOOLEAN], sumOk \in BOOLEAN : GenerateOpportunities(folderOk, sumOk)
  \/ \E saved \in BOOLEAN : UpdateReport(saved)
  \/ Kill
  \/ Restart

SummarySpec == Init /\ [][SummaryNext]_vars

(* --------------------------- days going by ------------------------------ *)
\* midnight passes while the process sleeps: weekday() gives the next day
NextDay ==
  /\ pc = "idle"
  /\ today' = (IF today = 6 THEN 0 ELSE today + 1)
  /\ digestsToday' = 0
  /\ UNCHANGED <<mailbox, pc, cycle, memory, disk, history, faults, last_summary_day>>

\* the steps of the program and of the calendar
DigestNext ==
  \/ \E sender \in Senders : Arrive(sender)
  \/ NextDay
  \/ FetchFail
  \/ Fetch
  \/ SkipSeen
  \/ \E parsed \in ParsedResults, resp \in EventResponses, saveOutcome \in SaveOutcomes :
       ProcessMessage(parsed, resp, saveOutcome)
  \/ \E saveOutcome \in SaveOutcomes : SaveProcessedEmails(saveOutcome)
  \/ NoNewEmails
  \/ NoNewLeads
  \/ \E folderOk \in [OppIds -> BOOLEAN], sumOk \in BOOLEAN : GenerateOpportunities(folderOk, sumOk)
  \/ \E saved \in BOOLEAN : UpdateReport(saved)
  \/ Kill
  \/ Restart

DigestSpec == Init /\ [][DigestNext]_vars

(* ------------------------------ properties ------------------------------ *)
\* rows of the Email Log written for message id
EmailRowsFor(id) == Len(SelectSeq(report.emails, LAMBDA row : row.msg = id))

\* rows of the Opportunity Master whose first column is opp_id
OppRowsFor(opp_id) == Len(SelectSeq(report.opps, LAMBDA row : row.id = opp_id))

\* the process is in the for-loop at a message it has already ingested
SeenAgain == pc = "loop" /\ Head(messages).id \in processed_emails

\* C1: idempotent re-ingestion.  A message fetched again after it was ingested
\* has exactly one Email Log row, no message ever has more than one, and no
\* sender has a second Opportunity Master row.  Stated for the behaviours
\* without any failure of the environment, where it already fails.
C1_IdempotentReingestion ==
  faults = 0 =>
    /\ \A i \in 1..Len(mailbox) :
         /\ EmailRowsFor(mailbox[i].id) <= 1
         /\ OppRowsFor(OppId(mailbox[i].sender_email)) <= 1
    /\ SeenAgain => EmailRowsFor(Head(messages).id) = 1

\* C2: an identifier is in the persisted ProcessedMessageSet only when the
\* report commit of its batch has been done (its Email Log row is written).
C2_PersistedOnlyAfterCommit ==
  \A id \in load_pickle(emails_pkl) : EmailRowsFor(id) >= 1

\* C3: when a cycle that ingested messages goes to sleep, every message of its
\* batch has an Email Log row, whatever its classification.  Stated for the
\* behaviours without any failure of the environment.
C3_EveryIngestedMessageLogged ==
  [][(pc \in {"returned", "generated"} /\ pc' = "idle" /\ faults' = 0) =>
       \A i \in 1..Len(all_newly_processed) :
         Len(SelectSeq(report'.emails,
                       LAMBDA row : row.msg = all_newly_processed[i].id)) >= 1]_vars


\* the new leads of the batch process_emails returned
Leads == new_leads_of(all_newly_processed)

\* createEvent calls made so far, over all fingerprints
RECURSIVE SumOver(_, _)
SumOver(f, S) ==
  IF S = {} THEN 0 ELSE LET x == CHOOSE x \in S : TRUE IN f[x] + SumOver(f, S \ {x})

\* the batch of the scenario, in fetch order (newest first): (c) not a lead
\* from b@y.com, (b) a lead without meeting from a@x.com, (a) a lead from
\* a@x.com with a meeting, its date and its start time, received before (b)
ScenarioBatch ==
  /\ Len(all_newly_processed) = 3
  /\ LET c == all_newly_processed[1]
         b == all_newly_processed[2]
         a == all_newly_processed[3]
     IN
     /\ c.sender_email = "b@y.com" /\ ~c.is_lead
     /\ b.sender_email = "a@x.com" /\ b.is_lead /\ ~b.parsed_data.has_meeting
     /\ a.sender_email = "a@x.com" /\ a.is_lead /\ a.parsed_data.has_meeting
     /\ a.parsed_data.date # "" /\ a.parsed_data.start_time # ""
     /\ a.received < b.received

\* C4: the scenario.  With no failure of the environment, the batch (a), (b),
\* (c) made exactly one createEvent call, resolves to one
\* Opportunity for a@x.com with the status of (b), and its commit leaves 3
\* Email Log rows, 1 Interaction Log row and that one Opportunity row.
C4_Scenario ==
  [][(ScenarioBatch /\ faults' = 0) =>
       /\ pc = "returned" =>
            /\ SumOver(eventPosts, Fingerprints) = 1
            /\ pc' = "generated"
            /\ Len(opportunities') = 1
            /\ opportunities'[1].id = OppId("a@x.com")
            /\ opportunities'[1].lead_status = all_newly_processed[2].parsed_data.lead_status
       /\ pc = "generated" =>
            /\ Len(report'.emails) = 3
            /\ Len(report'.log) = 1
            /\ Len(report'.opps) = 1
            /\ report'.opps[1].id = OppId("a@x.com")
            /\ report'.opps[1].lead_status = all_newly_processed[2].parsed_data.lead_status]_vars

\* the lead of the batch received last among those of opportunity opp_id
LatestLead(opp_id) ==
  CHOOSE i \in 1..Len(Leads) :
    /\ OppId(Leads[i].sender_email) = opp_id
    /\ \A j \in 1..Len(Leads) :
         OppId(Leads[j].sender_email) = opp_id => Leads[j].received <= Leads[i].received

\* C5: last-write-wins.  When the batch holds two leads of one sender,
\* generate_opportunities returns, for every sender of the batch, an
\* Opportunity with the status and the timestamp of its latest lead.
C5_LastWriteWins ==
  [][(/\ pc = "returned"
      /\ faults' = faults
      /\ \E i, j \in 1..Len(Leads) :
           i # j /\ OppId(Leads[i].sender_email) = OppId(Leads[j].sender_email)) =>
       /\ pc' = "generated"
       /\ \A i \in 1..Len(Leads) :
            LET opp_id == OppId(Leads[i].sender_email)
                k == KeyIndex(opportunities', opp_id)
            IN /\ k # 0
               /\ opportunities'[k].last_contacted = Leads[LatestLead(opp_id)].received
               /\ opportunities'[k].lead_status =
                    Leads[LatestLead(opp_id)].parsed_data.lead_status]_vars

\* C6: folder provisioning within a batch.  When all N >= 1 leads of the
\* batch come from one sender without an Opportunity Master row and no
\* request fails, createFolder is called once and the resolver returns one
\* record for the sender, carrying the link of that folder.
C6_FolderOncePerBatch ==
  [][(/\ pc = "returned"
      /\ faults' = faults
      /\ Leads # <<>>
      /\ \A i \in 1..Len(Leads) : OppId(Leads[i].sender_email) = OppId(Leads[1].sender_email)
      /\ OppRowsFor(OppId(Leads[1].sender_email)) = 0) =>
       LET opp_id == OppId(Leads[1].sender_email) IN
       /\ folderCalls'[opp_id] = folderCalls[opp_id] + 1
       /\ pc' = "generated"
       /\ Len(opportunities') = 1
       /\ opportunities'[1].id = opp_id
       /\ opportunities'[1].folder_link = <<"webUrl", opp_id, folderCalls'[opp_id]>>]_vars

\* C7: folder provisioning across cycles.  createFolder is called at most
\* once per Opportunity identifier.  Stated for the behaviours without any
\* failure of the environment.
C7_FolderOncePerOpportunity ==
  faults = 0 => \A opp_id \in OppIds : folderCalls[opp_id] <= 1


\* the step just taken invoked create_event for a meeting with date and time
Scheduled == lastEvent.invoked /\ lastEvent.fp \in Fingerprints

\* C8 as claimed: per fingerprint, one createEvent call is made however often
\* create_event is invoked, and an invocation that follows a call returns
\* DuplicateSkipped.
C8_MeetingDedup ==
  /\ \A fp \in Fingerprints : eventPosts[fp] <= 1
  /\ (Scheduled /\ eventPosts[lastEvent.fp] - (IF lastEvent.posted THEN 1 ELSE 0) >= 1) =>
       lastEvent.ret = "duplicate_skipped"

\* C8 as amended: within one run of the process at most one createEvent call
\* per fingerprint succeeds, its fingerprint is then in ProcessedEventSet, and
\* an invocation whose fingerprint is in ProcessedEventSet makes no call and
\* returns DuplicateSkipped.
C8_MeetingDedupPerRun ==
  /\ \A fp \in Fingerprints :
       /\ eventCreated[fp] <= 1
       /\ eventCreated[fp] = 1 => fp \in processed_events
  /\ (lastEvent.invoked /\ lastEvent.known) =>
       (lastEvent.ret = "duplicate_skipped" /\ ~lastEvent.posted)

\* a second invocation for a fingerprint created earlier in this run was skipped
C8_SecondInvocationSkipped ==
  /\ Scheduled
  /\ lastEvent.known
  /\ lastEvent.ret = "duplicate_skipped"
  /\ eventCreated[lastEvent.fp] = 1

\* what a step may do to ProcessedEventSet, in memory and on disk.  Only a
\* loop step whose createEvent call was answered 201 changes it: it adds the
\* fingerprint to the set in memory, and the file holds it too (always, or
\* when the save went through).
EventRecording(always) ==
  /\ (pc = "loop" /\ pc' # "exited") =>
       IF lastEvent'.posted /\ lastEvent'.resp = "201"
       THEN /\ lastEvent'.fp \notin processed_events
            /\ processed_events' = processed_events \cup {lastEvent'.fp}
            /\ (always \/ lastEvent'.save = "ok") =>
                 lastEvent'.fp \in load_pickle(events_pkl')
       ELSE UNCHANGED <<processed_events, events_pkl>>
  /\ (pc # "loop" \/ pc' = "exited") => events_pkl' = events_pkl
  /\ (pc \notin {"loop", "exited"} /\ pc' # "exited") => processed_events' = processed_events

\* C9 as claimed: a fingerprint enters ProcessedEventSet only with a
\* successful createEvent, and is then in memory and persisted when
\* create_event returns; a failed createEvent leaves both unchanged.
C9_RecordedAfterSuccess == [][EventRecording(TRUE)]_vars

\* C9 as amended: ... and is then in memory, and persisted when the save of
\* the set succeeds (save_pickle swallows its errors).
C9_RecordedAfterSuccessIfSaved == [][EventRecording(FALSE)]_vars

\* a createEvent call succeeded and its fingerprint is in memory and on disk
C9_CreatedAndPersisted ==
  /\ lastEvent.posted
  /\ lastEvent.resp = "201"
  /\ lastEvent.save = "ok"
  /\ lastEvent.fp \in processed_events
  /\ lastEvent.fp \in load_pickle(events_pkl)

Upserted(row, opp) == opp.id = row.id

\* C11: upsert frame.  Every step keeps the rows of the Opportunity Master
\* in place with their identifier, their email (which stands for the columns
\* copied from the sender: contact name, company, email, phone, title) and
\* their folder link; status and last-contacted change only in the commit of a
\* batch that holds the identifier, to the values of its opportunity, and the
\* notes change only to non-empty notes of that opportunity.
C11_UpsertFrame ==
  [][\A i \in 1..Len(report.opps) :
       LET old == report.opps[i] IN
       /\ i <= Len(report'.opps)
       /\ report'.opps[i].id = old.id
       /\ report'.opps[i].email = old.email
       /\ report'.opps[i].folder_link = old.folder_link
       /\ report'.opps[i] # old =>
            /\ pc = "generated"
            /\ \E k \in 1..Len(opportunities) :
                 LET opp == opportunities[k] IN
                 /\ Upserted(old, opp)
                 /\ report'.opps[i].lead_status = opp.lead_status
                 /\ report'.opps[i].last_contacted = opp.last_contacted
                 /\ report'.opps[i].notes = IF opp.notes # "" THEN opp.notes ELSE old.notes]_vars

\* a row was updated by a later cycle, which made a second folder for its
\* identifier, and still carries the link of the first folder
C11_RowUpdatedLinkKept ==
  \E i \in 1..Len(report.opps), j, k \in 1..Len(report.emails) :
    LET row == report.opps[i] IN
    /\ j < k
    /\ report.emails[j].is_lead = "Yes" /\ OppId(report.emails[j].from) = row.id
    /\ report.emails[k].is_lead = "Yes" /\ OppId(report.emails[k].from) = row.id
    /\ row.last_contacted = report.emails[k].timestamp
    /\ folderCalls[row.id] = 2
    /\ row.folder_link = <<"webUrl", row.id, 1>>

\* what a cycle without a batch must leave alone
NoEffect ==
  UNCHANGED <<processed_emails, emails_pkl, processed_events, events_pkl, report,
              eventPosts, folderCalls>>

\* C12: a transport failure of the fetch aborts the cycle without effect.  The
\* step whose fetch fails leaves process_emails with an empty batch and changes
\* neither set, in memory or on disk, nor the report, and makes no createEvent
\* or createFolder call; a cycle with an empty batch then goes on to sleep,
\* where the next fetch starts, still without effect.
C12_FetchFailureNoEffect ==
  [][/\ (pc = "idle" /\ cycle' = cycle + 1 /\ faults' = faults + 1) =>
          /\ pc' = "afterloop"
          /\ messages' = <<>>
          /\ all_newly_processed' = <<>>
          /\ NoEffect
     /\ (pc \in {"afterloop", "returned"} /\ all_newly_processed = <<>> /\ pc' # "exited") =>
          /\ pc' = (IF pc = "afterloop" THEN "returned" ELSE "idle")
          /\ all_newly_processed' = <<>>
          /\ NoEffect]_vars

\* process_emails has returned an empty batch although the mailbox holds a
\* message never ingested, and no createEvent call was ever made: the fetch failed
C12_FetchFailed ==
  /\ pc = "returned"
  /\ all_newly_processed = <<>>
  /\ \E i \in 1..Len(mailbox) : mailbox[i].id \notin processed_emails
  /\ \A fp \in Fingerprints : eventPosts[fp] = 0
  /\ faults = 1

\* C13: a failure on one message never aborts the batch.  Every step of the
\* for-loop at an unseen message records that message and leaves the rest of
\* the fetched list to be visited, whatever the classifier and the calendar
\* answered; a message whose classification failed is recorded as a non-lead.
C13_FailureNeverAbortsBatch ==
  [][(pc = "loop" /\ pc' # "exited" /\ Head(messages).id \notin processed_emails) =>
       /\ messages' = Tail(messages)
       /\ Len(all_newly_processed') = Len(all_newly_processed) + 1
       /\ LET email == all_newly_processed'[Len(all_newly_processed')] IN
          /\ email.id = Head(messages).id
          /\ email.id \in processed_emails'
          /\ ~email.parsed_data.json => ~email.is_lead]_vars

\* C14: a failed save of the report is not data loss.  When the commit of a
\* batch leaves the report as it was, the messages of the batch stay out of
\* ProcessedMessageSet, so that the next cycle ingests them again and writes
\* their rows.
C14_ReportFailureKeepsBatch ==
  [][(pc = "generated" /\ pc' = "idle" /\ report' = report) =>
       \A i \in 1..Len(all_newly_processed) :
         all_newly_processed[i].id \notin processed_emails']_vars

\* C15: the loop has no terminal state.  The only step that ends the process
\* is the interruption from outside: no step of the program does.
C15_NoTerminalState ==
  [][(pc # "exited" /\ pc' = "exited") => Kill]_vars

\* C16: the durable ProcessedMessageSet never shrinks.  No step, a failed or
\* interrupted save included, takes an identifier out of the set a load of
\* processed_emails.pkl returns.
C16_DurableSetNeverShrinks ==
  [][load_pickle(emails_pkl) \subseteq load_pickle(emails_pkl')]_vars

\* C17: summarization reads the committed history only.  The notes of an
\* opportunity that generate_opportunities returns are the summarizer's result
\* when the Interaction Log on file holds more than 3 rows of its identifier,
\* and empty otherwise.
C17_SummaryIffHistoryExceeds ==
  [][(pc = "returned" /\ pc' = "generated") =>
       \A k \in 1..Len(opportunities') :
         LET opp == opportunities'[k] IN
         (opp.notes # "") <=>
           (Len(get_interaction_history(report, opp.id)) > SUMMARY_THRESHOLD)]_vars

\* the pairs of a lowercased sender address and the identifier given to it: by
\* the resolver (the opportunities it returned and the rows written from
\* them) and in the rows of the Interaction Log, whose timestamp names the message
Identified ==
  {<<Lower(opportunities[k].email), opportunities[k].id>> : k \in 1..Len(opportunities)}
  \cup {<<Lower(report.opps[i].email), report.opps[i].id>> : i \in 1..Len(report.opps)}
  \cup {<<Lower(mailbox[report.log[i].timestamp].sender_email), report.log[i].id>> :
          i \in 1..Len(report.log)}

\* C18: deterministic identity.  Sender addresses that are equal after
\* lowercasing have one Opportunity identifier, in the resolver and in the
\* Interaction Log alike.
C18_DeterministicIdentity ==
  \A p, q \in Identified : p[1] = q[1] => p[2] = q[2]

\* an Interaction Log row of a message from one spelling of an address carries
\* the identifier of the Opportunity Master row made for another spelling
C18_TwoSpellingsOneId ==
  \E i \in 1..Len(report.log), j \in 1..Len(report.opps) :
    /\ report.log[i].id = report.opps[j].id
    /\ mailbox[report.log[i].timestamp].sender_email # report.opps[j].email

\* the classification of a recorded message routes it to the calendar: a lead
\* with has-meeting true, a meeting date and a start time
RoutedToCalendar(email) ==
  /\ email.is_lead
  /\ email.parsed_data.has_meeting
  /\ email.parsed_data.date # ""
  /\ email.parsed_data.start_time # ""

\* C19: routing.  A step of the for-loop makes a createEvent call only for a
\* message classified as a lead with has-meeting true, a date and a start
\* time; when it records a message classified otherwise, it has made no call
\* and has left ProcessedEventSet, in memory and on disk, as it was.
C19_Routing ==
  [][(pc = "loop" /\ pc' # "exited") =>
       /\ eventPosts' # eventPosts =>
            /\ lastEvent'.invoked
            /\ lastEvent'.posted
            /\ lastEvent'.fp \in Fingerprints
       /\ Len(all_newly_processed') > Len(all_newly_processed) =>
            LET email == all_newly_processed'[Len(all_newly_processed')] IN
            /\ (eventPosts' # eventPosts) => RoutedToCalendar(email)
            /\ ~RoutedToCalendar(email) =>
                 UNCHANGED <<eventPosts, processed_events, events_pkl>>]_vars

\* create_event was invoked for a lead with has-meeting true and no date: it
\* returned None without a call
C19_NoDateNoCall ==
  /\ lastEvent.invoked
  /\ lastEvent.fp \notin Fingerprints
  /\ ~lastEvent.posted
  /\ lastEvent.ret = "None"
  /\ all_newly_processed # <<>>
  /\ LET email == all_newly_processed[Len(all_newly_processed)] IN
     email.is_lead /\ email.parsed_data.has_meeting /\ email.parsed_data.date = ""

\* the lead messages of a batch with has-meeting true
MeetingLeads(batch) ==
  SelectSeq(batch, LAMBDA email : email.is_lead /\ email.parsed_data.has_meeting)

\* the rows of s are the first rows of t, unchanged
IsPrefix(s, t) == Len(s) <= Len(t) /\ SubSeq(t, 1, Len(s)) = s

\* C20: the Interaction Log gets one row per ingested lead with has-meeting
\* true.  No step changes or removes a row of the Interaction Log or of the
\* Email Log; and when a cycle ends, no call of it having failed, the
\* Interaction Log has got one row for every lead of the batch with
\* has-meeting true, in their order, and no other row.
C20_OneRowPerMeetingLead ==
  [][/\ IsPrefix(report.log, report'.log)
     /\ IsPrefix(report.emails, report'.emails)
     /\ pc = "returned" => report' = report
     /\ ((pc = "generated" \/ (pc = "returned" /\ pc' # "generated")) /\ faults' = faults) =>
          LET new == MeetingLeads(all_newly_processed) IN
          /\ Len(report'.log) = Len(report.log) + Len(new)
          /\ \A k \in 1..Len(new) :
               /\ report'.log[Len(report.log) + k].timestamp = new[k].received
               /\ report'.log[Len(report.log) + k].id = OppId(new[k].sender_email)]_vars

\* C21: the weekly digest is logged at most once on a day, however many
\* cycles start on that day.
C21_DigestOncePerDay == digestsToday <= 1

\* C22: referential integrity of the report.  In every state of the report
\* file, the identifier of each Interaction Log row is the identifier of a
\* row of the Opportunity Master.
C22_LogRowsHaveOpportunity ==
  \A i \in 1..Len(report.log) :
    \E j \in 1..Len(report.opps) : report.opps[j].id = report.log[i].id

\* two commits have written an Interaction Log row each for one identifier,
\* whose Opportunity Master row the first of them appended
C22_TwoLogRowsOneOpportunity ==
  \E i, k \in 1..Len(report.log) :
    /\ i < k
    /\ report.log[i].id = report.log[k].id
    /\ OppRowsFor(report.log[i].id) = 1

\* C23: a failed meeting is not retried.  The step whose createEvent call is
\* answered with a non-success status still puts the message into
\* ProcessedMessageSet and leaves its fingerprint out of ProcessedEventSet;
\* while the process runs, ProcessedMessageSet loses no identifier; and the
\* for-loop passes over a message of ProcessedMessageSet without a createEvent
\* call and without recording it again.
C23_FailedMeetingNotRetried ==
  [][/\ (pc = "loop" /\ pc' # "exited" /\ lastEvent'.posted /\ lastEvent'.resp = "500") =>
          /\ Head(messages).id \in processed_emails'
          /\ lastEvent'.fp \notin processed_events'
     /\ (pc # "exited" /\ pc' # "exited") => processed_emails \subseteq processed_emails'
     /\ (pc = "loop" /\ pc' # "exited" /\ Head(messages).id \in processed_emails) =>
          /\ messages' = Tail(messages)
          /\ UNCHANGED <<eventPosts, processed_events, all_newly_processed>>]_vars

\* the only message of the mailbox is met again in a later cycle of the run
\* in which its createEvent call, the only one made, was answered 500: its
\* fingerprint is not in ProcessedEventSet and it is about to be passed over
C23_FailedMeetingSeenAgain ==
  /\ Len(mailbox) = 1
  /\ SeenAgain
  /\ faults = 1
  /\ \E fp \in Fingerprints :
       /\ fp[4] = Lower(Head(messages).sender_email)
       /\ eventPosts[fp] = 1
       /\ eventCreated[fp] = 0
       /\ fp \notin processed_events
       /\ fp \notin load_pickle(events_pkl)

====
